---- MODULE Spec2Model ----
(***************************************************************************)
(* The balance store of the mint (src/mint/model/balance.go): the          *)
(* `balances` relation and the four operations on it, run by concurrent    *)
(* request handlers.  One step of the model is one SQL statement (or the   *)
(* entry of a call, which evaluates its arguments and builds its locals).  *)
(* Then the request controller of the API (src/api/controller.go):         *)
(* RetrieveChallenges and CreateUser, one step per external call.          *)
(***************************************************************************)
EXTENDS Integers, FiniteSets, Sequences, TLC

\* ---------------------------------------------------------------- bounds
NProcs == 2       \* concurrent request handlers
MaxCalls == 3     \* calls made in one behaviour, over all handlers
MaxValue == 1     \* largest Amount a caller passes or saves

Procs == 1..NProcs
Assets == {"a1", "a2"}
Holders == {"h1"}
LocalMint == "m1"
RemoteMint == "m2"
Owners == {LocalMint, RemoteMint}
Pairs == Assets \X Holders

\* mint.PgType
PgTpCanonical == "canonical"
PgTpPropagated == "propagated"

\* Amount: a non-negative quantity, zero by default.
AmountZero == 0
AmountAdd(a, d) == a + d
\* Subtract fails with Underflow when the result would be negative.
AmountSubtract(a, d) ==
    IF d > a THEN [underflow |-> TRUE, v |-> a] ELSE [underflow |-> FALSE, v |-> a - d]

\* Returned errors, by kind (errors.Trace keeps the kind of what it wraps).
NoError == "nil"
ErrUniqueConstraintViolation == "ErrUniqueConstraintViolation"
StorageError == "StorageError"

\* What the storage engine answers to a statement.
SqlOk == "ok"
SqlUniqueViolation == "unique_violation"
SqlFailure == "io_error"

\* A nil *Balance.
Nil == [nil |-> TRUE]

VARIABLES
    store,      \* the rows of the balances relation
    nextToken,  \* token.New: the next token minted
    now,        \* time.Now
    calls,      \* calls entered so far
    pc,         \* per handler: "idle", or "insert" before its INSERT
    frame,      \* per handler: the locals of its call in progress
    held,       \* per handler: the balance it holds in memory (nil: none)
    ret,        \* the call that returned last, and what it returned (stale:
                \* a Save wrote over a Value its caller had not seen)
    violated,   \* per pair: a load-or-create has returned the unique violation
    outcomes    \* per pair: CreateCanonicalBalance calls that returned a balance

vars == <<store, nextToken, now, calls, pc, frame, held, ret, violated, outcomes>>

\* The request controller of the API (it makes no call to the balance store,
\* and the balance store none to it).
VARIABLES
    apc,        \* where the handler is: "idle", "mint", "account", "fact"
    request,    \* the request being handled, or the last one handled
    challenges, \* RetrieveChallenges: the challenges slice
    external,   \* the external calls made for the request, in order
    response    \* what has been written to the ResponseWriter for the request

apiVars == <<apc, request, challenges, external, response>>

allVars == <<vars, apiVars>>

NoRequest == [handler |-> "none", livemode |-> FALSE]

\* No request has arrived.
ApiInit ==
    /\ apc = "idle"
    /\ request = NoRequest
    /\ challenges = <<>>
    /\ external = <<>>
    /\ response = <<>>

\* ------------------------------------------------------------ the relation
Columns == {"Owner", "Token", "Created", "Propagation", "Asset", "Holder", "Value"}

\* The uniqueness constraints of the balances relation (the persisted
\* layout: token unique, and (asset, holder, propagation) unique).
UniqueKeys == {{"Token"}, {"Asset", "Holder", "Propagation"}}

ViolatesUnique(rows, b) ==
    \E r \in rows : \E k \in UniqueKeys : \A c \in k : r[c] = b[c]

\* An advisory copy of a balance whose asset another mint issues.
PropagatedSeed ==
    [Owner |-> RemoteMint, Token |-> 1, Created |-> 0,
     Propagation |-> PgTpPropagated,
     Asset |-> "a1", Holder |-> "h1", Value |-> MaxValue]

RowsOf(rows, asset, holder) ==
    {r \in rows : r.Asset = asset /\ r.Holder = holder}

CanonicalOf(rows, asset, holder) ==
    {r \in RowsOf(rows, asset, holder) : r.Propagation = PgTpCanonical}

\* ------------------------------------------------- CreateCanonicalBalance
NewBalance(owner, asset, holder, value) ==
    [Owner |-> owner, Token |-> nextToken, Created |-> now,
     Propagation |-> PgTpCanonical,
     Asset |-> asset, Holder |-> holder, Value |-> value]

\* INSERT INTO balances: the answers the engine can give.
InsertCodes(rows, b) ==
    {IF ViolatesUnique(rows, b) THEN SqlUniqueViolation ELSE SqlOk, SqlFailure}

\* INSERT ... ON CONFLICT DO UPDATE: the rows in conflict with b replaced by b.
InsertRowsUpsert(rows, b, code) ==
    IF code = SqlFailure THEN rows
    ELSE {r \in rows : ~ViolatesUnique({r}, b)} \cup {b}

InsertRows(rows, b, code) == IF code = SqlOk THEN rows \cup {b} ELSE rows

\* The type switch on the engine's error left out: every error returned as is.
CreateReturnNoSwitch(b, code) ==
    IF code = SqlOk THEN [bal |-> b, err |-> NoError]
    ELSE [bal |-> Nil, err |-> StorageError]

\* The balance returned beside the error.
CreateReturnKeepsBalance(b, code) ==
    IF code = SqlOk THEN [bal |-> b, err |-> NoError]
    ELSE IF code = SqlUniqueViolation
         THEN [bal |-> b, err |-> ErrUniqueConstraintViolation]
         ELSE [bal |-> b, err |-> StorageError]

CreateReturn(b, code) ==
    IF code = SqlOk THEN [bal |-> b, err |-> NoError]
    ELSE IF code = SqlUniqueViolation
         THEN [bal |-> Nil, err |-> ErrUniqueConstraintViolation]
         ELSE [bal |-> Nil, err |-> StorageError]

\* ---------------------------------------- LoadCanonicalBalanceByAssetHolder
\* SELECT * FROM balances WHERE asset = :asset AND holder = :holder
SelectRows(rows, asset, holder) ==
    {r \in rows : r.Asset = asset /\ r.Holder = holder}

\* rows.Next / StructScan / Close: no row is (nil, nil); otherwise the first
\* row of the result, in the order the engine happens to produce.
\* Absence reported as an error.
LoadOutcomesNotFound(rows, asset, holder) ==
    LET sel == SelectRows(rows, asset, holder) IN
    {[bal |-> Nil, err |-> StorageError, sql |-> SqlFailure]}
    \cup (IF sel = {}
          THEN {[bal |-> Nil, err |-> StorageError, sql |-> SqlOk]}
          ELSE {[bal |-> r, err |-> NoError, sql |-> SqlOk] : r \in sel})

LoadOutcomes(rows, asset, holder) ==
    LET sel == SelectRows(rows, asset, holder) IN
    {[bal |-> Nil, err |-> StorageError, sql |-> SqlFailure]}
    \cup (IF sel = {}
          THEN {[bal |-> Nil, err |-> NoError, sql |-> SqlOk]}
          ELSE {[bal |-> r, err |-> NoError, sql |-> SqlOk] : r \in sel})

\* ------------------------------- LoadOrCreateCanonicalBalanceByAssetHolder
\* The error of the create dropped.
LoadOrCreateReturnSwallows(r) ==
    IF r.err # NoError THEN [bal |-> Nil, err |-> NoError] ELSE r

LoadOrCreateReturn(r) ==
    IF r.err # NoError THEN [bal |-> Nil, err |-> r.err] ELSE r

\* -------------------------------------------------------------------- Save
\* UPDATE balances SET value = :value WHERE owner = :owner AND token = :token
\* SET every column from the in-memory balance.
UpdateAllColumns(rows, b) ==
    {IF r.Owner = b.Owner /\ r.Token = b.Token THEN b ELSE r : r \in rows}

\* WHERE owner = :owner alone, the token written with the value.
UpdateByOwner(rows, b) ==
    {IF r.Owner = b.Owner
     THEN [r EXCEPT !.Token = b.Token, !.Value = b.Value] ELSE r : r \in rows}

\* SET value = value - :value: the in-memory Value taken for a delta.
UpdateDelta(rows, b) ==
    {IF r.Owner = b.Owner /\ r.Token = b.Token
     THEN [r EXCEPT !.Value = @ - b.Value] ELSE r : r \in rows}

\* SET value = value + :value: the in-memory Value merged into the stored one.
UpdateAccumulate(rows, b) ==
    {IF r.Owner = b.Owner /\ r.Token = b.Token
     THEN [r EXCEPT !.Value = @ + b.Value] ELSE r : r \in rows}

UpdateValue(rows, b) ==
    {IF r.Owner = b.Owner /\ r.Token = b.Token
     THEN [r EXCEPT !.Value = b.Value] ELSE r : r \in rows}

SaveCodes == {SqlOk, SqlFailure}

SaveRows(rows, b, code) == IF code = SqlOk THEN UpdateValue(rows, b) ELSE rows

SaveReturn(code) == IF code = SqlOk THEN NoError ELSE StorageError

\* --------------------------------------------------------------- callers
Other(S, x) == CHOOSE y \in S : y # x

\* The amounts a caller adds to or subtracts from a Value, and the Values it
\* passes to CreateCanonicalBalance.
Deltas == {1}
Initial == {AmountZero, MaxValue}

\* The in-memory balances a caller holding h may pass to Save: h with a Value
\* it computed from the one it holds, and possibly another field changed.
Computed(v) ==
    {x \in {AmountAdd(v, d) : d \in Deltas}
           \cup {r.v : r \in {s \in {AmountSubtract(v, d) : d \in Deltas} :
                                ~s.underflow}} :
        x <= MaxValue}

InMemory(h) ==
    LET hs == {h,
               [h EXCEPT !.Asset = Other(Assets, h.Asset),
                         !.Propagation =
                            Other({PgTpCanonical, PgTpPropagated}, h.Propagation),
                         !.Created = now],
               [h EXCEPT !.Owner = Other(Owners, h.Owner)],
               [h EXCEPT !.Token = nextToken]}
    IN  {[x EXCEPT !.Value = v] : x \in hs, v \in Computed(h.Value)}

NoFrame == [op |-> "none"]
NoCall ==
    [op |-> "none", asset |-> "", holder |-> "", bal |-> Nil,
     err |-> NoError, sql |-> SqlOk, tok |-> 0, after |-> FALSE,
     stale |-> FALSE]

\* What a caller holds once a call has returned bal to it.
Holding(h, bal) == IF bal = Nil THEN h ELSE bal

Init ==
    /\ store = {PropagatedSeed}
    /\ nextToken = PropagatedSeed.Token + 1
    /\ now = PropagatedSeed.Created + 1
    /\ calls = 0
    /\ pc = [p \in Procs |-> "idle"]
    /\ frame = [p \in Procs |-> NoFrame]
    /\ held = [p \in Procs |-> Nil]
    /\ ret = NoCall
    /\ violated = [q \in Pairs |-> FALSE]
    /\ outcomes = [q \in Pairs |-> [won |-> 0]]
    /\ ApiInit

\* A handler enters a call: the calls of one handler follow one another.
Enter(p) == pc[p] = "idle" /\ calls < MaxCalls /\ calls' = calls + 1

\* CreateCanonicalBalance, entry: the balance literal (token.New, time.Now).
BeginCreateCanonicalBalance(p) ==
    /\ Enter(p)
    /\ \E asset \in Assets, holder \in Holders, value \in Initial :
        frame' = [frame EXCEPT ![p] =
                    [op |-> "Create", after |-> FALSE,
                     balance |-> NewBalance(LocalMint, asset, holder, value)]]
    /\ pc' = [pc EXCEPT ![p] = "insert"]
    /\ nextToken' = nextToken + 1
    /\ now' = now + 1
    /\ UNCHANGED <<store, held, ret, violated, outcomes, apiVars>>

\* CreateCanonicalBalance, the INSERT and the return; when the call was made
\* by LoadOrCreateCanonicalBalanceByAssetHolder, that function's return too.
CreateCanonicalBalance(p) ==
    /\ pc[p] = "insert"
    /\ LET b == frame[p].balance
           pair == <<b.Asset, b.Holder>>
       IN \E code \in InsertCodes(store, b) :
           LET created == CreateReturn(b, code)
               r == IF frame[p].op = "LoadOrCreate"
                    THEN LoadOrCreateReturn(created) ELSE created
           IN /\ store' = InsertRows(store, b, code)
              /\ ret' = [op |-> frame[p].op,  asset |-> b.Asset, holder |-> b.Holder,
                         bal |-> r.bal, err |-> r.err, sql |-> code,
                         tok |-> b.Token, after |-> frame[p].after,
                         stale |-> FALSE]
              /\ held' = [held EXCEPT ![p] = Holding(@, r.bal)]
              /\ outcomes' =
                    IF created.err = NoError
                    THEN [outcomes EXCEPT ![pair].won = @ + 1]
                    ELSE outcomes
              /\ violated' =
                    IF frame[p].op = "LoadOrCreate"
                       /\ r.err = ErrUniqueConstraintViolation
                    THEN [violated EXCEPT ![pair] = TRUE] ELSE violated
    /\ pc' = [pc EXCEPT ![p] = "idle"]
    /\ frame' = [frame EXCEPT ![p] = NoFrame]
    /\ UNCHANGED <<nextToken, now, calls, apiVars>>

\* LoadCanonicalBalanceByAssetHolder: the SELECT and the return.
LoadCanonicalBalanceByAssetHolder(p) ==
    /\ Enter(p)
    /\ \E asset \in Assets, holder \in Holders :
        \E r \in LoadOutcomes(store, asset, holder) :
            /\ ret' = [op |-> "Load", asset |-> asset, holder |-> holder,
                       bal |-> r.bal, err |-> r.err, sql |-> r.sql,
                       tok |-> 0, after |-> FALSE, stale |-> FALSE]
            /\ held' = [held EXCEPT ![p] = Holding(@, r.bal)]
    /\ UNCHANGED <<store, nextToken, now, pc, frame, violated, outcomes, apiVars>>

\* LoadOrCreateCanonicalBalanceByAssetHolder, the load: an error or a balance
\* is returned; on (nil, nil) CreateCanonicalBalance is entered with a zero
\* Amount.
LoadOrCreateCanonicalBalanceByAssetHolder(p) ==
    /\ Enter(p)
    /\ \E asset \in Assets, holder \in Holders :
        LET pair == <<asset, holder>> IN
        \E r \in LoadOutcomes(store, asset, holder) :
           IF r.err = NoError /\ r.bal = Nil
           THEN /\ frame' = [frame EXCEPT ![p] =
                        [op |-> "LoadOrCreate", after |-> violated[pair],
                         balance |->
                            NewBalance(LocalMint, asset, holder, AmountZero)]]
                /\ pc' = [pc EXCEPT ![p] = "insert"]
                /\ nextToken' = nextToken + 1
                /\ now' = now + 1
                /\ UNCHANGED <<held, ret>>
           ELSE /\ ret' = [op |-> "LoadOrCreate", asset |-> asset, holder |-> holder,
                           bal |-> LoadOrCreateReturn(r).bal,
                           err |-> LoadOrCreateReturn(r).err, sql |-> r.sql,
                           tok |-> 0, after |-> violated[pair],
                           stale |-> FALSE]
                /\ held' = [held EXCEPT ![p] =
                                Holding(@, LoadOrCreateReturn(r).bal)]
                /\ UNCHANGED <<nextToken, now, pc, frame>>
    /\ UNCHANGED <<store, violated, outcomes, apiVars>>

\* A row that b's UPDATE writes no longer has the Value the caller holds in
\* h: it has been written since the caller loaded or saved it.
Stale(rows, h, b) ==
    \E r \in rows : r.Owner = b.Owner /\ r.Token = b.Token /\ r.Value # h.Value

\* Save: the receiver is the balance the caller holds, as the caller has
\* changed it in memory; the UPDATE and the return.  The caller goes on
\* holding its balance, with the Value it saved.
Save(p) ==
    /\ Enter(p)
    /\ held[p] # Nil
    /\ \E b \in InMemory(held[p]) :
       \E code \in SaveCodes :
        /\ store' = SaveRows(store, b, code)
        /\ ret' = [op |-> "Save", asset |-> b.Asset, holder |-> b.Holder,
                   bal |-> b, err |-> SaveReturn(code), sql |-> code,
                   tok |-> 0, after |-> FALSE, stale |-> Stale(store, held[p], b)]
        /\ held' = [held EXCEPT ![p] = [@ EXCEPT !.Value = b.Value]]
    /\ UNCHANGED <<nextToken, now, pc, frame, violated, outcomes, apiVars>>

Next ==
    \E p \in Procs :
        \/ BeginCreateCanonicalBalance(p)
        \/ CreateCanonicalBalance(p)
        \/ LoadCanonicalBalanceByAssetHolder(p)
        \/ LoadOrCreateCanonicalBalanceByAssetHolder(p)
        \/ Save(p)

\* ====================================================== the API controller
\* Strings are sequences of one-character strings.
Repeat(c, n) == [i \in 1..n |-> c]

Lower == {"a", "b", "c"}
Upper == {"A", "B", "C"}
Digits == <<"0", "1", "2", "3", "4", "5", "6", "7", "8", "9">>
Digit == {Digits[i] : i \in 1..Len(Digits)}

\* strings.ToLower
ToLowerChar(c) ==
    IF c = "A" THEN "a" ELSE IF c = "B" THEN "b" ELSE IF c = "C" THEN "c" ELSE c
ToLower(s) == [i \in 1..Len(s) |-> ToLowerChar(s[i])]

DefaultRetrieveChallengesCount == 10
MaxRetrieveChallengesCount == 10
\* count >= 100 is refused
CountLimit == 100
\* {1,256} of usernameRegexp; len(params.Email) > 256;
\* len(params.EncryptedSeed) > 256
UsernameMaxLen == 256
EmailMaxLen == 256
EncryptedSeedMaxLen == 256

\* usernameRegexp: ^[a-z0-9]{1,256}$
UsernameMatch(s) ==
    /\ Len(s) >= 1
    /\ Len(s) <= UsernameMaxLen
    /\ \A i \in 1..Len(s) : s[i] \in Lower \cup Digit

\* emailRegexp: ^[a-z0-9_\.\+\-]+@[a-z0-9-]+\.[a-z0-9-\.]+$
EmailMatch(s) ==
    \E i \in 2..Len(s) :
        /\ s[i] = "@"
        /\ \A k \in 1..(i - 1) : s[k] \in Lower \cup Digit \cup {"_", ".", "+", "-"}
        /\ \E j \in (i + 2)..(Len(s) - 1) :
            /\ s[j] = "."
            /\ \A k \in (i + 1)..(j - 1) : s[k] \in Lower \cup Digit \cup {"-"}
            /\ \A k \in (j + 1)..Len(s) : s[k] \in Lower \cup Digit \cup {"-", "."}

\* base64.StdEncoding.DecodeString returns no error: new lines are skipped,
\* what is left is whole 4-character groups of the alphabet, the last one
\* possibly ending in "=" or "==".
Base64Char == Lower \cup Upper \cup Digit \cup {"+", "/"}
IsNewline(c) == c \in {"\n", "\r"}
Base64Decodes(s) ==
    LET t == SelectSeq(s, LAMBDA c : ~IsNewline(c))
        n == Len(t)
    IN /\ n % 4 = 0
       /\ \A i \in 1..(n - 2) : t[i] \in Base64Char
       /\ n > 0 =>
            \/ t[n - 1] \in Base64Char /\ t[n] \in Base64Char \cup {"="}
            \/ t[n - 1] = "=" /\ t[n] = "="

\* strconv.ParseUint(attr, 10, 64): digits only, at least one (the values
\* modelled are far from 2^64).
ParseUintOk(s) == Len(s) >= 1 /\ \A i \in 1..Len(s) : s[i] \in Digit
DigitValue(c) == CHOOSE d \in 0..9 : Digits[d + 1] = c
RECURSIVE ParseUintValue(_)
ParseUintValue(s) ==
    IF s = <<>> THEN 0
    ELSE 10 * ParseUintValue(SubSeq(s, 1, Len(s) - 1)) + DigitValue(s[Len(s)])

\* clients: the Horizon client of each livemode.
clients ==
    [livemode \in BOOLEAN |->
        IF livemode THEN "DefaultPublicNetClient" ELSE "DefaultTestNetClient"]

\* emailVerifiers: the trusted verifiers of each livemode.
LiveVerifier == "GBTIKKWP5FOCMRSTJS46SCTWC6IKCHWDJMJMP6QLFGNYPRTCY63E5T3N"
TestVerifier == "GDFZHVU2PNOFR5KXKDBW72ZF45TXTC6LOOLGJK7XD7V2JYQB4KIOEXKN"
emailVerifiers ==
    [livemode \in BOOLEAN |->
        IF livemode THEN <<LiveVerifier>> ELSE <<TestVerifier>>]

\* The signing keypairs: authentication.RootLiveKeypair, and the keypair of
\* testmode (a separate set of signing keys per livemode).
RootLiveKeypair == "RootLiveKeypair"
RootTestKeypair == "RootTestKeypair"
SigningKeypair ==
    [livemode \in BOOLEAN |-> IF livemode THEN RootLiveKeypair ELSE RootTestKeypair]

\* What a request carries.
Address == "GABCDEF"
Usernames == {<<>>, <<"a", "1">>, <<"A">>, Repeat("a", UsernameMaxLen + 1)}
Emails ==
    {<<"a", "@", "b", ".", "c">>, <<"A", "@", "b", ".", "c">>, <<"a", "b">>,
     Repeat("a", EmailMaxLen - 3) \o <<"@", "b", ".", "c">>}
EncryptedSeeds ==
    {<<>>, <<"A", "A", "A", "A">>, <<"A", "A", "=", "=">>, <<"A", "A", "A">>,
     <<"A", "A", "\n", "A", "A">>, Repeat("A", EncryptedSeedMaxLen + 4)}
Verifiers == {LiveVerifier, TestVerifier, "GUNKNOWN"}
CountAttrs ==
    {<<>>, <<"0">>, <<"2">>, <<"1", "0">>, <<"1", "1">>, <<"9", "9">>,
     <<"1", "0", "0">>, <<"a">>, <<"-", "1">>}

\* What an external call answers.
Ok == "ok"
Failed == "error"

\* respond.Error with a user error (status 400 here), respond.Error with
\* another error (500), respond.Success.
UserError(status, code) ==
    [status |-> status, code |-> code, challenges |-> <<>>]
InternalError == [status |-> 500, code |-> "internal", challenges |-> <<>>]
Success(list) == [status |-> 200, code |-> "", challenges |-> list]

\* A request arrives: the handler's locals and the ResponseWriter are new.
Arrives(req) ==
    /\ apc = "idle"
    /\ request' = req
    /\ challenges' = <<>>
    /\ external' = <<>>

\* The count attribute is refused.
CountInvalidAtLimit(attr) ==
    ~ParseUintOk(attr) \/ ParseUintValue(attr) > CountLimit

CountInvalid(attr) ==
    ~ParseUintOk(attr) \/ ParseUintValue(attr) >= CountLimit

\* RetrieveChallenges, up to the loop.
RetrieveChallenges ==
    /\ \E livemode \in BOOLEAN, attr \in CountAttrs :
        LET count == IF attr = <<>> THEN DefaultRetrieveChallengesCount
                     ELSE IF ParseUintOk(attr) THEN ParseUintValue(attr) ELSE 0
        IN /\ Arrives([handler |-> "RetrieveChallenges", livemode |-> livemode,
                        attr |-> attr, count |-> count])
           /\ IF attr # <<>> /\ CountInvalid(attr)
              THEN /\ response' = <<UserError(400, "count_invalid")>>
                   /\ apc' = "idle"
              ELSE /\ response' = <<>>
                   /\ apc' = "mint"
    /\ UNCHANGED vars

\* One iteration of the loop: authentication.MintChallenge.
MintChallenge ==
    /\ apc = "mint"
    /\ Len(challenges) < request.count
    /\ \E result \in {Ok, Failed} :
        /\ external' = Append(external,
                [fn |-> "MintChallenge", anchor |-> RootLiveKeypair,
                 result |-> result])
        /\ IF result = Failed
           THEN /\ response' = <<InternalError>>
                /\ apc' = "idle"
                /\ UNCHANGED challenges
           ELSE /\ challenges' = Append(challenges, [signer |-> RootLiveKeypair])
                /\ UNCHANGED <<response, apc>>
    /\ UNCHANGED <<request, vars>>

\* The loop is over: respond.Success.
RespondChallenges ==
    /\ apc = "mint"
    /\ Len(challenges) >= request.count
    /\ response' = <<Success(challenges)>>
    /\ apc' = "idle"
    /\ UNCHANGED <<request, challenges, external, vars>>

\* The three gates on the request's own fields, in the order of the code:
\* the code of the first that fails, "" when none does.
\* The email gate moved before the username gate.
ValidateEmailFirst(params) ==
    IF ~EmailMatch(params.Email) \/ Len(params.Email) > EmailMaxLen
    THEN "email_invalid"
    ELSE IF ~UsernameMatch(params.Username) THEN "username_invalid"
    ELSE IF ~Base64Decodes(params.EncryptedSeed)
            \/ Len(params.EncryptedSeed) > EncryptedSeedMaxLen
    THEN "encrypted_seed_invalid"
    ELSE ""

Validate(params) ==
    IF ~UsernameMatch(params.Username) THEN "username_invalid"
    ELSE IF ~EmailMatch(params.Email) \/ Len(params.Email) > EmailMaxLen
    THEN "email_invalid"
    ELSE IF ~Base64Decodes(params.EncryptedSeed)
            \/ Len(params.EncryptedSeed) > EncryptedSeedMaxLen
    THEN "encrypted_seed_invalid"
    ELSE ""

\* The verifier looked up in the lists of both livemodes.
FoundInAnyMode(livemode, verifier) ==
    \E mode \in BOOLEAN : \E i \in 1..Len(emailVerifiers[mode]) :
        emailVerifiers[mode][i] = verifier

\* found: the verifier is in emailVerifiers[params.Livemode].
Found(livemode, verifier) ==
    \E i \in 1..Len(emailVerifiers[livemode]) :
        emailVerifiers[livemode][i] = verifier

\* CreateUser, up to the call of LoadAccount.
CreateUser ==
    /\ \E livemode \in BOOLEAN, username \in Usernames, email \in Emails,
          seed \in EncryptedSeeds, verifier \in Verifiers :
        LET params == [Livemode |-> livemode, Address |-> Address,
                       Username |-> username, EncryptedSeed |-> seed,
                       Email |-> ToLower(email), Verifier |-> verifier]
            code == Validate(params)
        IN /\ Arrives([handler |-> "CreateUser", livemode |-> livemode,
                        params |-> params])
           /\ IF code # ""
              THEN /\ response' = <<UserError(400, code)>>
                   /\ apc' = "idle"
              ELSE /\ response' = <<>>
                   /\ apc' = "account"
    /\ UNCHANGED vars

\* CreateUser, from the answer of clients[params.Livemode].LoadAccount to the
\* call of facts.CheckFact.
CreateUserLoadAccount ==
    /\ apc = "account"
    /\ \E result \in {Ok, Failed} :
        /\ external' = Append(external,
                [fn |-> "LoadAccount",
                 anchor |-> clients[request.params.Livemode],
                 result |-> result])
        /\ IF result = Failed
           THEN /\ response' = <<UserError(400, "address_invalid")>>
                /\ apc' = "idle"
           ELSE IF ~Found(request.params.Livemode, request.params.Verifier)
           THEN /\ response' = <<UserError(400, "email_verifier_unknown")>>
                /\ apc' = "idle"
           ELSE /\ response' = response
                /\ apc' = "fact"
    /\ UNCHANGED <<request, challenges, vars>>

\* CreateUser, from the answer of facts.CheckFact to the end.
CreateUserCheckFact ==
    /\ apc = "fact"
    /\ \E result \in {Ok, Failed} :
        /\ external' = Append(external,
                [fn |-> "CheckFact", anchor |-> request.params.Livemode,
                 result |-> result])
        /\ response' = IF result = Failed
                       THEN <<UserError(400, "email_verification_failed")>>
                       ELSE response
    /\ apc' = "idle"
    /\ UNCHANGED <<request, challenges, vars>>

ApiNext ==
    \/ RetrieveChallenges
    \/ MintChallenge
    \/ RespondChallenges
    \/ CreateUser
    \/ CreateUserLoadAccount
    \/ CreateUserCheckFact

Spec == Init /\ [][Next]_allVars

\* Every handler has loaded the advisory copy (the state Spec is in after one
\* LoadCanonicalBalanceByAssetHolder(a1, h1) by each handler); the calls
\* counted from here on are the ones made with the loaded balance.
Loaded ==
    /\ store = {PropagatedSeed}
    /\ nextToken = PropagatedSeed.Token + 1
    /\ now = PropagatedSeed.Created + 1
    /\ calls = 0
    /\ pc = [p \in Procs |-> "idle"]
    /\ frame = [p \in Procs |-> NoFrame]
    /\ held = [p \in Procs |-> PropagatedSeed]
    /\ ret = [NoCall EXCEPT !.op = "Load", !.asset = PropagatedSeed.Asset,
                             !.holder = PropagatedSeed.Holder,
                             !.bal = PropagatedSeed]
    /\ violated = [q \in Pairs |-> FALSE]
    /\ outcomes = [q \in Pairs |-> [won |-> 0]]
    /\ ApiInit

SaveRaceSpec == Loaded /\ [][Next]_allVars

\* The controller alone: it makes no call to the balance store.
ApiSpec == Init /\ [][ApiNext]_allVars

\* ------------------------------------------------------------ properties
PropagatedOf(rows, asset, holder) ==
    {r \in RowsOf(rows, asset, holder) : r.Propagation = PgTpPropagated}

\* This step is the INSERT of handler p's CreateCanonicalBalance.
InsertStep(p) == pc[p] = "insert" /\ pc'[p] = "idle"

\* This step is a whole call of the named operation (one statement).
CallStep(op) == calls' = calls + 1 /\ pc' = pc /\ ret'.op = op

\* The last call to return went through CreateCanonicalBalance's INSERT.
Inserted == ret.op \in {"Create", "LoadOrCreate"} /\ ret.tok # 0

\* C1: of the CreateCanonicalBalance calls for a pair, run in any
\* interleaving, whose INSERT the engine did not fail for another reason,
\* exactly one returns a balance and stores one canonical row (its own), and
\* every other one returns ErrUniqueConstraintViolation and stores nothing.
C1_ExactlyOneCreateWins ==
    /\ \A q \in Pairs :
        /\ outcomes[q].won <= 1
        /\ Cardinality(CanonicalOf(store, q[1], q[2])) = outcomes[q].won
    /\ (Inserted /\ ret.sql # SqlFailure) =>
        /\ outcomes[<<ret.asset, ret.holder>>].won = 1
        /\ IF ret.bal # Nil
           THEN /\ ret.err = NoError
                /\ ret.bal.Token = ret.tok
                /\ \E r \in CanonicalOf(store, ret.asset, ret.holder) :
                        r.Token = ret.tok
           ELSE /\ ret.err = ErrUniqueConstraintViolation
                /\ \A r \in store : r.Token # ret.tok

\* Two creates of one absent pair overlapped (the loser built its balance
\* before the winner built its own, and inserted after it).
C1_Witness ==
    /\ ret.op = "Create"
    /\ ret.err = ErrUniqueConstraintViolation
    /\ PropagatedOf(store, ret.asset, ret.holder) = {}
    /\ \E r \in CanonicalOf(store, ret.asset, ret.holder) : r.Token > ret.tok

\* C2: in every reachable state there is at most one row with
\* Propagation = Canonical for each (Asset, Holder) pair.
C2_AtMostOneCanonical ==
    \A q \in Pairs : Cardinality(CanonicalOf(store, q[1], q[2])) <= 1

C2_Witness ==
    /\ ret.op = "Save"
    /\ ret.err = NoError
    /\ \E q \in Pairs :
        /\ outcomes[q].won = 1
        /\ Cardinality(CanonicalOf(store, q[1], q[2])) = 1
        /\ Cardinality(RowsOf(store, q[1], q[2])) = 2

\* What C3 says of the INSERT of a create for a pair that has a row among
\* `existing`: nil and an error, the store as it was, and the error is the
\* unique violation unless the engine failed for another reason; and a
\* failure for another reason is returned as another error, with nil.
CreateRejected(existing(_, _, _)) ==
    \A p \in Procs :
        (InsertStep(p) /\ frame[p].op = "Create") =>
            LET b == frame[p].balance IN
            /\ existing(store, b.Asset, b.Holder) # {} =>
                /\ ret'.bal = Nil
                /\ ret'.err # NoError
                /\ store' = store
                /\ ret'.sql # SqlFailure =>
                        ret'.err = ErrUniqueConstraintViolation
            /\ ret'.sql = SqlFailure =>
                /\ ret'.bal = Nil
                /\ ret'.err \notin {NoError, ErrUniqueConstraintViolation}
                /\ store' = store

C4_LoadOrCreateRace ==
    (/\ ret.op = "LoadOrCreate"
     /\ ret.sql # SqlFailure
     /\ PropagatedOf(store, ret.asset, ret.holder) = {}) =>
        /\ outcomes[<<ret.asset, ret.holder>>].won = 1
        /\ Cardinality(RowsOf(store, ret.asset, ret.holder)) = 1
        /\ \/ /\ ret.bal # Nil
              /\ ret.err = NoError
              /\ \E r \in CanonicalOf(store, ret.asset, ret.holder) :
                    r.Token = ret.bal.Token
           \/ /\ ret.bal = Nil
              /\ ret.err = ErrUniqueConstraintViolation
              /\ ret.sql = SqlUniqueViolation
              /\ ~ret.after
        /\ ret.after => ret.bal # Nil

C4_Witness ==
    /\ ret.op = "LoadOrCreate"
    /\ ret.after
    /\ ret.bal # Nil
    /\ violated[<<ret.asset, ret.holder>>]
    /\ PropagatedOf(store, ret.asset, ret.holder) = {}

\* C5: two successive successful load-or-create calls for one pair return
\* balances with the same Token.
C5_SameToken ==
    [][(/\ ret.op = "LoadOrCreate" /\ ret.bal # Nil
        /\ ret'.op = "LoadOrCreate" /\ ret'.bal # Nil
        /\ ret'.asset = ret.asset /\ ret'.holder = ret.holder)
       => ret'.bal.Token = ret.bal.Token]_vars

\* C6: every balance returned by LoadCanonicalBalanceByAssetHolder or
\* LoadOrCreateCanonicalBalanceByAssetHolder has Propagation = Canonical.
C6_LoadedIsCanonical ==
    (ret.op \in {"Load", "LoadOrCreate"} /\ ret.bal # Nil) =>
        ret.bal.Propagation = PgTpCanonical

\* C7: Save changes only the Value of the rows whose (Owner, Token) are the
\* in-memory balance's: their other columns and every other row are
\* unchanged, whatever the other in-memory fields are; with no such row the
\* store is unchanged.
C7_SaveFrame ==
    [][CallStep("Save") =>
        LET b == ret'.bal
            hit(r) == r.Owner = b.Owner /\ r.Token = b.Token
        IN /\ Cardinality(store') = Cardinality(store)
           /\ \A r \in store :
                IF hit(r)
                THEN \E r2 \in store' :
                        /\ \A c \in Columns \ {"Value"} : r2[c] = r[c]
                        /\ r2.Value = IF ret'.err = NoError
                                      THEN b.Value ELSE r.Value
                ELSE r \in store'
           /\ (\A r \in store : ~hit(r)) => store' = store]_vars

\* A Save has written the advisory copy's Value from an in-memory balance
\* whose other fields are not the stored ones.
C7_Witness ==
    /\ ret.op = "Save"
    /\ ret.err = NoError
    /\ \E r \in store :
        /\ r.Token = PropagatedSeed.Token
        /\ r.Owner = ret.bal.Owner /\ r.Token = ret.bal.Token
        /\ r.Asset # ret.bal.Asset /\ r.Propagation # ret.bal.Propagation
        /\ r.Value = ret.bal.Value
        /\ r.Value # PropagatedSeed.Value

\* C8: the persisted Value of every balance is >= 0.
C8_ValueNonNegative == \A r \in store : r.Value >= 0

\* A Save has brought a stored Value down to zero.
C8_Witness ==
    /\ ret.op = "Save"
    /\ ret.err = NoError
    /\ ret.bal.Value = 0
    /\ \E r \in store :
        /\ r.Owner = ret.bal.Owner /\ r.Token = ret.bal.Token
        /\ r = [PropagatedSeed EXCEPT !.Value = 0]
        /\ PropagatedSeed.Value > 0

\* C9: no two stored balances have the same Token, and the Token of a
\* stored balance never changes.
C9_TokenUniqueImmutable ==
    /\ [](\A r1, r2 \in store : r1.Token = r2.Token => r1 = r2)
    /\ [][\A r \in store : \E r2 \in store' :
            \A c \in Columns \ {"Value"} : r2[c] = r[c]]_vars

C9_Witness ==
    /\ ret.op = "Save"
    /\ ret.err = NoError
    /\ ret.bal.Token \notin {r.Token : r \in store}
    /\ Cardinality({r.Token : r \in store}) >= 3

\* C10: LoadCanonicalBalanceByAssetHolder leaves the store unchanged and,
\* unless the storage fails, returns (nil, nil) for a pair with no stored
\* record and a stored record of the pair otherwise.
C10_LoadAbsentIsNil ==
    [][CallStep("Load") =>
        /\ store' = store
        /\ ret'.sql # SqlFailure =>
            /\ ret'.err = NoError
            /\ IF RowsOf(store, ret'.asset, ret'.holder) = {}
               THEN ret'.bal = Nil
               ELSE ret'.bal \in RowsOf(store, ret'.asset, ret'.holder)]_vars

C10_Witness ==
    /\ ret.op = "Load"
    /\ ret.bal = Nil
    /\ ret.err = NoError
    /\ RowsOf(store, ret.asset, ret.holder) = {}
    /\ store # {PropagatedSeed}

\* This step is a step of a LoadOrCreateCanonicalBalanceByAssetHolder call
\* that returns: from its load, or from the INSERT of the create it made.
LoadOrCreateReturns ==
    \/ CallStep("LoadOrCreate")
    \/ \E p \in Procs : InsertStep(p) /\ frame[p].op = "LoadOrCreate"

\* C11: the load-or-create path adds a row only for a pair that has no
\* canonical balance yet (so at most once per pair, rows being kept), and
\* the row it adds has Value zero; a load-or-create that finds a balance of
\* the pair returns a stored row, with the Value stored, and no
\* load-or-create changes or removes a row; and every row of a state is in
\* every later state, with at most its Value changed (a zero Value included).
C11_CreatedOnceNeverDeleted ==
    [][/\ \A p \in Procs :
            (InsertStep(p) /\ frame[p].op = "LoadOrCreate" /\ store' # store) =>
                LET b == frame[p].balance IN
                /\ store' = store \cup {b}
                /\ b.Value = AmountZero
                /\ b.Propagation = PgTpCanonical
                /\ CanonicalOf(store, b.Asset, b.Holder) = {}
                /\ outcomes'[<<b.Asset, b.Holder>>].won = 1
       /\ CallStep("LoadOrCreate") =>
            /\ store' = store
            /\ ret'.sql # SqlFailure =>
                    ret'.bal \in RowsOf(store', ret'.asset, ret'.holder)
       /\ LoadOrCreateReturns => store \subseteq store'
       /\ \A r \in store : \E r2 \in store' :
            \A c \in Columns \ {"Value"} : r2[c] = r[c]]_vars

\* A load-or-create has returned the canonical balance of a pair with the
\* Value stored, which is not zero.
C11_Witness ==
    /\ ret.op = "LoadOrCreate"
    /\ ret.tok = 0
    /\ ret.bal # Nil
    /\ ret.bal.Propagation = PgTpCanonical
    /\ ret.bal.Value # AmountZero
    /\ ret.bal \in store
    /\ outcomes[<<ret.asset, ret.holder>>].won = 1

\* C15: Save detects no conflict: whenever the engine runs its UPDATE, Save
\* returns no error and every row with the in-memory balance's (Owner,
\* Token) has the Value saved, whatever Value the row had and whether or not
\* the caller had seen it (the last writer wins).
C15_SaveLastWriterWins ==
    (ret.op = "Save" /\ ret.sql = SqlOk) =>
        /\ ret.err = NoError
        /\ \A r \in store :
            (r.Owner = ret.bal.Owner /\ r.Token = ret.bal.Token) =>
                r.Value = ret.bal.Value

\* Two handlers that loaded the same balance have each saved a Value computed
\* from the one loaded, both without error; the second wrote over the
\* first's, and the Value stored is one change away from the Value loaded.
C15_Witness ==
    /\ ret.op = "Save"
    /\ ret.err = NoError
    /\ ret.stale
    /\ \E r \in store :
        /\ r.Owner = ret.bal.Owner /\ r.Token = ret.bal.Token
        /\ r.Token = PropagatedSeed.Token
        /\ r.Value = ret.bal.Value
        /\ r.Value \in Computed(PropagatedSeed.Value)
        /\ \E p, q \in Procs :
            /\ p # q
            /\ held[p] = held[q]
            /\ held[p].Token = r.Token
            /\ held[p].Value = r.Value

\* ------------------------------------------- properties of the controller
\* The verifiers trusted in a livemode.
TrustedVerifiers(livemode) ==
    {emailVerifiers[livemode][i] : i \in 1..Len(emailVerifiers[livemode])}

\* The external calls of the request that are calls of fn.
CallsOf(fn) == SelectSeq(external, LAMBDA c : c.fn = fn)

\* C12: when CreateUser has passed the gates before it (the account lookup
\* has just answered without error) and the verifier is not in the trusted
\* list of the request's livemode, it writes the 400 email_verifier_unknown
\* error and nothing else, ends without calling the fact check, and changes
\* nothing of the balance store.
C12_UntrustedVerifierRejected ==
    [][(/\ apc = "account"
        /\ external'[Len(external')].result = Ok
        /\ request.params.Verifier \notin TrustedVerifiers(request.livemode))
       => /\ response' = <<UserError(400, "email_verifier_unknown")>>
          /\ apc' = "idle"
          /\ CallsOf("CheckFact")' = <<>>
          /\ store' = store
          /\ vars' = vars]_allVars

\* A testmode request naming the verifier trusted in livemode only has been
\* rejected after its account was found.
C12_Witness ==
    /\ apc = "idle"
    /\ request.handler = "CreateUser"
    /\ ~request.livemode
    /\ request.params.Verifier = LiveVerifier
    /\ external = <<[fn |-> "LoadAccount", anchor |-> clients[FALSE],
                     result |-> Ok]>>
    /\ response = <<UserError(400, "email_verifier_unknown")>>

\* C13: every trust anchor used for a request is the one of the request's
\* livemode: the network client of the account lookup, the verifier list
\* (the fact check is made in the request's livemode, with a verifier
\* trusted in it), and the keypair that signs the challenges.
C13_AnchorsOfLivemode ==
    \A i \in 1..Len(external) :
        LET c == external[i] IN
        /\ c.fn = "LoadAccount" => c.anchor = clients[request.livemode]
        /\ c.fn = "CheckFact" =>
            /\ c.anchor = request.livemode
            /\ request.params.Verifier \in TrustedVerifiers(request.livemode)
        /\ c.fn = "MintChallenge" => c.anchor = SigningKeypair[request.livemode]

\* C14: no response carries more than MaxRetrieveChallengesCount
\* challenges, and the response to a request without count carries
\* DefaultRetrieveChallengesCount of them.
C14_AtMostMaxChallenges ==
    \A i \in 1..Len(response) :
        /\ Len(response[i].challenges) <= MaxRetrieveChallengesCount
        /\ (/\ request.handler = "RetrieveChallenges"
            /\ request.attr = <<>>
            /\ response[i].status = 200) =>
                Len(response[i].challenges) = DefaultRetrieveChallengesCount

\* The only thing written for the request is the 400 error with this code,
\* and the handler has returned.
Rejected(code) == response = <<UserError(400, code)>> /\ apc = "idle"

\* C16: CreateUser runs its gates in the order username, email, encrypted
\* seed, account, verifier, fact check: the first gate that fails writes
\* one 400 error with its code and ends the handler, no external call being
\* made after it (none at all before the account gate, the account lookup
\* alone before the fact check); while no gate has failed nothing is
\* written, and when all pass nothing is written at all.
C16_GatesInOrder ==
    request.handler = "CreateUser" =>
        LET p == request.params
            n == Len(external)
        IN IF ~UsernameMatch(p.Username)
           THEN Rejected("username_invalid") /\ n = 0
           ELSE IF ~(EmailMatch(p.Email) /\ Len(p.Email) <= EmailMaxLen)
           THEN Rejected("email_invalid") /\ n = 0
           ELSE IF ~(/\ Base64Decodes(p.EncryptedSeed)
                     /\ Len(p.EncryptedSeed) <= EncryptedSeedMaxLen)
           THEN Rejected("encrypted_seed_invalid") /\ n = 0
           ELSE IF n = 0
           THEN apc = "account" /\ response = <<>>
           ELSE /\ external[1].fn = "LoadAccount"
                /\ IF external[1].result = Failed
                   THEN Rejected("address_invalid") /\ n = 1
                   ELSE IF p.Verifier \notin TrustedVerifiers(request.livemode)
                   THEN Rejected("email_verifier_unknown") /\ n = 1
                   ELSE IF n = 1
                   THEN apc = "fact" /\ response = <<>>
                   ELSE /\ n = 2
                        /\ external[2].fn = "CheckFact"
                        /\ apc = "idle"
                        /\ IF external[2].result = Failed
                           THEN Rejected("email_verification_failed")
                           ELSE response = <<>>

\* A request has passed every gate: the account lookup, then the fact check,
\* and nothing written.
C16_Witness ==
    /\ apc = "idle"
    /\ request.handler = "CreateUser"
    /\ request.params.Username = <<"a", "1">>
    /\ Len(external) = 2
    /\ external[1].fn = "LoadAccount" /\ external[1].result = Ok
    /\ external[2].fn = "CheckFact" /\ external[2].result = Ok
    /\ response = <<>>

====
